---- MODULE Spec2Model ----
(***************************************************************************)
(* apidiff: markdowndiff.py, in its two variants                           *)
(*   "java"    src/java/markdowndiff.py    (annotation-aware)              *)
(*   "android" src/android/markdowndiff.py                                 *)
(* Python strings are modelled as sequences of one-character strings, so   *)
(* that matching, slicing, splitting and comparing work on characters as   *)
(* they do in the code.                                                    *)
(***************************************************************************)
EXTENDS Integers, Sequences, FiniteSets, TLC

VARIABLES
  variant,          \* which of the two source files runs
  pc,               \* the statement the run is at; it stays where an exception is raised
  old_path,         \* print_api_diff: the files under old_path
  new_path,         \* print_api_diff: the files under new_path
  old_symbols,      \* print_api_diff: old_symbols
  new_symbols,      \* print_api_diff: new_symbols
  report,           \* print_api_diff: report
  stdout,           \* the characters written to standard output
  raised,           \* the exception that ended the run, NoException when none
  lines,            \* _symbols_for_klass: lines
  index,            \* _symbols_for_klass: the loop's next index (0-based)
  klass,            \* _symbols_for_klass: klass
  symbols,          \* _symbols_for_klass: symbols
  classified,       \* indices whose line was handed to the classifier
  full_definition,  \* _parse_full_definition: its argument
  parsed,           \* _parse_full_definition: its result
  string,           \* _simplify: its argument
  once,             \* _simplify(string)
  twice             \* _simplify(_simplify(string))

vars == <<variant, pc, old_path, new_path, old_symbols, new_symbols, report,
          stdout, raised, lines, index, klass, symbols, classified,
          full_definition, parsed, string, once, twice>>

Variants == {"java", "android"}

\* None: Python's None, and the value of a variable a specification does not use
None == "None"

(***************************************************************************)
(* Strings                                                                 *)
(***************************************************************************)

\* the character ` (code 96), which no string of this notation can hold
Backtick == "grave accent"

\* \s of the re module and the characters str.strip() removes, for the
\* characters that occur
Whitespace == {" ", "\t", "\n"}

\* s[a:b] with 0 <= a, b <= len(s)
Slice(s, a, b) == SubSeq(s, a + 1, b)

\* s starts with w at offset p
StartsWithAt(s, p, w) ==
  /\ p + Len(w) <= Len(s)
  /\ \A i \in 1..Len(w) : s[p + i] = w[i]

\* number of consecutive whitespace characters of s from offset p on
RECURSIVE SpaceRun(_, _)
SpaceRun(s, p) ==
  IF p < Len(s) /\ s[p + 1] \in Whitespace THEN 1 + SpaceRun(s, p + 1) ELSE 0

\* number of consecutive non-whitespace characters of s from offset p on
RECURSIVE NonSpaceRun(_, _)
NonSpaceRun(s, p) ==
  IF p < Len(s) /\ s[p + 1] \notin Whitespace THEN 1 + NonSpaceRun(s, p + 1) ELSE 0

Max(S) == CHOOSE x \in S : \A y \in S : y <= x
Min(S) == CHOOSE x \in S : \A y \in S : x <= y

\* str.strip()
RECURSIVE LStrip(_)
LStrip(s) == IF s # <<>> /\ Head(s) \in Whitespace THEN LStrip(Tail(s)) ELSE s
RECURSIVE RStrip(_)
RStrip(s) ==
  IF s # <<>> /\ s[Len(s)] \in Whitespace THEN RStrip(Slice(s, 0, Len(s) - 1)) ELSE s
Strip(s) == RStrip(LStrip(s))

\* s[:-1]
DropLast(s) == IF s = <<>> THEN <<>> ELSE Slice(s, 0, Len(s) - 1)

\* ''.join(parts)
RECURSIVE Concat(_)
Concat(parts) == IF parts = <<>> THEN <<>> ELSE Head(parts) \o Concat(Tail(parts))

\* sep.join(parts)
RECURSIVE Join(_, _)
Join(sep, parts) ==
  IF parts = <<>> THEN <<>>
  ELSE IF Len(parts) = 1 THEN Head(parts)
  ELSE Head(parts) \o sep \o Join(sep, Tail(parts))

(***************************************************************************)
(* Kind                                                                    *)
(***************************************************************************)
KLASS == 1
CONSTRUCTOR == 2
FIELD == 3
METHOD == 4

(***************************************************************************)
(* _parse_full_definition / _kind_and_signature_for_definition             *)
(* re.match is a backtracking matcher anchored at offset 0: of all the     *)
(* ways a pattern matches it returns the first in the order greedy         *)
(* quantifiers try long before short, lazy ones short before long and      *)
(* alternatives left to right.  Each pattern below is the set of its       *)
(* matches, and the operators pick the first in that order.  '.' matches    *)
(* every character of a definition: after readlines() and strip() it       *)
(* holds no newline.                                                       *)
(***************************************************************************)

\* the alternatives of `modifiers`, in the pattern's order
ModifierKeywords ==
  << <<"p", "u", "b", "l", "i", "c">>, <<"p", "r", "o", "t", "e", "c", "t", "e", "d">>, <<"p", "r", "i", "v", "a", "t", "e">>, <<"s", "t", "a", "t", "i", "c">>, <<"a", "b", "s", "t", "r", "a", "c", "t">>, <<"f", "i", "n", "a", "l">>,
     <<"n", "a", "t", "i", "v", "e">>, <<"s", "t", "r", "i", "c", "t", "f", "p">>, <<"s", "y", "n", "c", "h", "r", "o", "n", "i", "z", "e", "d">>, <<"t", "r", "a", "n", "s", "i", "e", "n", "t">>, <<"v", "o", "l", "a", "t", "i", "l", "e">> >>

\* the alternatives of `klass_type`, in the pattern's order
KlassTypes ==
  IF variant = "java" THEN << <<"c", "l", "a", "s", "s">>, <<"i", "n", "t", "e", "r", "f", "a", "c", "e">>, <<"e", "n", "u", "m">> >> ELSE << <<"c", "l", "a", "s", "s">> >>

\* the offsets where one alternative keyword\s+ can end from offset p, then the
\* offsets any further repetitions reach from there, in the order the matcher
\* tries them: for each whitespace length, longest first, more repetitions
\* before stopping
RECURSIVE ModifierEndsFrom(_, _, _)
RECURSIVE ModifierAlt(_, _, _, _)
ModifierAlt(s, p, k, w) ==
  IF w = 0 THEN <<>>
  ELSE ModifierEndsFrom(s, p + Len(ModifierKeywords[k]) + w, 1)
         \o << p + Len(ModifierKeywords[k]) + w >>
         \o ModifierAlt(s, p, k, w - 1)
ModifierEndsFrom(s, p, k) ==
  IF k > Len(ModifierKeywords) THEN <<>>
  ELSE (IF StartsWithAt(s, p, ModifierKeywords[k])
        THEN ModifierAlt(s, p, k, SpaceRun(s, p + Len(ModifierKeywords[k])))
        ELSE <<>>)
       \o ModifierEndsFrom(s, p, k + 1)

\* the same with '*' for '+': zero repetitions tried last
ModifiersStar(s) == ModifierEndsFrom(s, 0, 1) \o << 0 >>

\* modifiers = '(?:public\s+|...|volatile\s+)+': one or more repetitions
ModifierEnds(s) == ModifierEndsFrom(s, 0, 1)

\* what a pattern yields when it does not match
NoMatch == [nomatch |-> TRUE]
Matched(r) == "g1" \in DOMAIN r

\* the elements of a sequence
Elements(seq) == {seq[i] : i \in DOMAIN seq}

\* the first element of a sequence of offsets that is among `good`, 0 - 1 when none
First(seq, good) ==
  IF \E i \in DOMAIN seq : seq[i] \in good
  THEN seq[Min({i \in DOMAIN seq : seq[i] \in good})]
  ELSE 0 - 1

\* offsets just after a ')' that lies behind offset p: where '\(.*\)' can end
\* when its '(' is the character before offset p
CloseEnds(s, p) == {e \in (p + 1)..Len(s) : s[e] = ")"}

\* '\S+\(.*\)' from offset t: \S+ takes r characters, '(' follows, '.*' runs to
\* a ')'
CallLengths(s, t) ==
  {r \in 1..NonSpaceRun(s, t) :
     /\ t + r < Len(s)
     /\ s[t + r + 1] = "("
     /\ CloseEnds(s, t + r + 1) # {}}

\* object_type = '.+?\s+' from offset m: '.+?' takes a characters, \s+ takes w
ObjectTypeEnds(s, m, a) == {m + a + w : w \in 1..SpaceRun(s, m + a)}

\* Klass: modifiers(klass_type)\s+(\S+)(extends_implements), modifiers ending at m
KlassTypeAt(s, m) ==
  {k \in 1..Len(KlassTypes) :
     /\ StartsWithAt(s, m, KlassTypes[k])
     /\ SpaceRun(s, m + Len(KlassTypes[k])) >= 1
     /\ NonSpaceRun(s, m + Len(KlassTypes[k]) + SpaceRun(s, m + Len(KlassTypes[k]))) >= 1}

\* no exception was raised
NoException == [exception |-> "None"]

\* raise Exception('Could not parse %s' % full_definition)
ParseError(text) ==
  [raised |-> [exception |-> "Exception", message |-> <<"C", "o", "u", "l", "d", " ", "n", "o", "t", " ", "p", "a", "r", "s", "e", " ">> \o text]]

Raised(r) == "raised" \in DOMAIN r

MatchKlass(s, ends) ==
  \* \s+ and \S+ are greedy and '.*' takes the rest
  LET Groups(type, t, e) ==
        [g1 |-> type, g2 |-> Slice(s, t, e), g3 |-> Slice(s, e, Len(s))]
      Name(type, t) == Groups(type, t, t + NonSpaceRun(s, t))
      Type(m, type) == Name(type, m + Len(type) + SpaceRun(s, m + Len(type)))
      At(m) == IF m < 0 THEN NoMatch ELSE Type(m, KlassTypes[Min(KlassTypeAt(s, m))])
  IN At(First(ends, {p \in Elements(ends) : KlassTypeAt(s, p) # {}}))

\* Method: modifiers(object_type(\S+\(.*\)))throws, modifiers ending at m
MethodTypeLengths(s, m) ==
  {a \in 1..(Len(s) - m) : \E t \in ObjectTypeEnds(s, m, a) : CallLengths(s, t) # {}}

\* the signature taken without its parameter list
MatchMethodNameOnly(s, ends) ==
  LET m == First(ends, {p \in Elements(ends) : MethodTypeLengths(s, p) # {}}) IN
  IF m < 0 THEN NoMatch
  ELSE LET a == Min(MethodTypeLengths(s, m))
           t == Max({x \in ObjectTypeEnds(s, m, a) : CallLengths(s, x) # {}})
           r == Max(CallLengths(s, t))
           e == Max(CloseEnds(s, t + r + 1))
       IN [g1 |-> Slice(s, m, e), g2 |-> Slice(s, t, t + r)]

MatchMethod(s, ends) ==
  LET m == First(ends, {p \in Elements(ends) : MethodTypeLengths(s, p) # {}}) IN
  IF m < 0 THEN NoMatch
  ELSE LET a == Min(MethodTypeLengths(s, m))
           t == Max({x \in ObjectTypeEnds(s, m, a) : CallLengths(s, x) # {}})
           r == Max(CallLengths(s, t))
           e == Max(CloseEnds(s, t + r + 1))
       IN [g1 |-> Slice(s, m, e), g2 |-> Slice(s, t, e)]

\* Constructor: modifiers(\S+\(.*\))throws
MatchConstructor(s, ends) ==
  LET m == First(ends, {p \in Elements(ends) : CallLengths(s, p) # {}}) IN
  IF m < 0 THEN NoMatch
  ELSE LET r == Max(CallLengths(s, m))
           e == Max(CloseEnds(s, m + r + 1))
       IN [g1 |-> Slice(s, m, e)]

\* Field: modifiers(object_type(\S+))
FieldTypeLengths(s, m) ==
  {a \in 1..(Len(s) - m) : \E t \in ObjectTypeEnds(s, m, a) : NonSpaceRun(s, t) >= 1}

MatchField(s, ends) ==
  LET m == First(ends, {p \in Elements(ends) : FieldTypeLengths(s, p) # {}}) IN
  IF m < 0 THEN NoMatch
  ELSE LET a == Min(FieldTypeLengths(s, m))
           t == Max({x \in ObjectTypeEnds(s, m, a) : NonSpaceRun(s, x) >= 1})
           e == t + NonSpaceRun(s, t)
       IN [g1 |-> Slice(s, m, e), g2 |-> Slice(s, t, e)]

AnnotationExtends == <<" ", "e", "x", "t", "e", "n", "d", "s", " ", "j", "a", "v", "a", ".", "l", "a", "n", "g", ".", "a", "n", "n", "o", "t", "a", "t", "i", "o", "n", ".", "A", "n", "n", "o", "t", "a", "t", "i", "o", "n">>

\* src/java: (kind, signature, short_definition, kind_description)
_parse_full_definition(text) ==
  LET Result(k, m, c, f) ==
        IF Matched(k)
        THEN IF k.g1 = <<"i", "n", "t", "e", "r", "f", "a", "c", "e">> /\ k.g3 = AnnotationExtends
             THEN [kind |-> KLASS, signature |-> k.g2,
                   short_definition |-> <<"@">> \o k.g2, kind_description |-> <<"a", "n", "n", "o", "t", "a", "t", "i", "o", "n">>]
             ELSE [kind |-> KLASS, signature |-> k.g2,
                   short_definition |-> k.g2, kind_description |-> k.g1]
        ELSE IF Matched(m)
        THEN [kind |-> METHOD, signature |-> m.g2,
              short_definition |-> m.g1, kind_description |-> <<"m", "e", "t", "h", "o", "d">>]
        ELSE IF Matched(c)
        THEN [kind |-> CONSTRUCTOR, signature |-> c.g1,
              short_definition |-> c.g1, kind_description |-> <<"c", "o", "n", "s", "t", "r", "u", "c", "t", "o", "r">>]
        ELSE IF Matched(f)
        THEN [kind |-> FIELD, signature |-> f.g2,
              short_definition |-> f.g1, kind_description |-> <<"f", "i", "e", "l", "d">>]
        ELSE ParseError(text)
      Match(ends) == Result(MatchKlass(text, ends), MatchMethod(text, ends),
                            MatchConstructor(text, ends), MatchField(text, ends))
  IN Match(ModifierEnds(text))

\* src/android: (kind, signature)
_kind_and_signature_for_definition(text) ==
  LET Result(k, m, c, f) ==
        IF Matched(k) THEN [kind |-> KLASS, signature |-> k.g2]
        ELSE IF Matched(m) THEN [kind |-> METHOD, signature |-> m.g2]
        ELSE IF Matched(c) THEN [kind |-> CONSTRUCTOR, signature |-> c.g1]
        ELSE IF Matched(f) THEN [kind |-> FIELD, signature |-> f.g2]
        ELSE ParseError(text)
      Match(ends) == Result(MatchKlass(text, ends), MatchMethod(text, ends),
                            MatchConstructor(text, ends), MatchField(text, ends))
  IN Match(ModifierEnds(text))

\* the classifier of the variant that runs
Classify(text) ==
  IF variant = "java" THEN _parse_full_definition(text)
  ELSE _kind_and_signature_for_definition(text)

(***************************************************************************)
(* SpecClassify: the classifier applied to one line                       *)
(***************************************************************************)
MaxModifiers == 2

ModifierWords == { <<"p", "u", "b", "l", "i", "c", " ">>, <<"s", "t", "a", "t", "i", "c", " ">>, <<"f", "i", "n", "a", "l", " ", " ">> }

DeclarationBodies ==
  { <<"c", "l", "a", "s", "s", " ", "F", "o", "o">>, <<"i", "n", "t", "e", "r", "f", "a", "c", "e", " ", "F", "o", "o">>, <<"e", "n", "u", "m", " ", "F", "o", "o">>, <<"v", "o", "i", "d", " ", "d", "r", "a", "w", "(", ")">>, <<"F", "o", "o", "(", ")">>,
    <<"i", "n", "t", " ", "c", "o", "l", "o", "r">>, <<"c", "l", "a", "s", "s", " ", "a", ".", "F", "o", "o", " ", "e", "x", "t", "e", "n", "d", "s", " ", "b", ".", "B", "a", "r">>,
    <<"i", "n", "t", "e", "r", "f", "a", "c", "e", " ", "F", "o", "o", " ", "e", "x", "t", "e", "n", "d", "s", " ", "j", "a", "v", "a", ".", "l", "a", "n", "g", ".", "a", "n", "n", "o", "t", "a", "t", "i", "o", "n", ".", "A", "n", "n", "o", "t", "a", "t", "i", "o", "n">>,
    <<"v", "o", "i", "d", " ", "d", "r", "a", "w", "(", "i", "n", "t", " ", "x", ")", " ", "t", "h", "r", "o", "w", "s", " ", "a", ".", "E">>, <<"F", "o", "o", "(", "a", ".", "B", " ", "b", ")">>, <<"a", ".", "B", "<", "C", ",", " ", "D", ">", " ", "m", "a", "p">>, <<"F", "o", "o">>, <<>> }

ModifierRuns == UNION { [1..n -> ModifierWords] : n \in 0..MaxModifiers }

ClassifierInputs == { Concat(run) \o body : run \in ModifierRuns, body \in DeclarationBodies }

InitClassify ==
  /\ variant \in Variants
  /\ pc = "classify"
  /\ full_definition \in ClassifierInputs
  /\ parsed = None
  /\ old_path = None /\ new_path = None /\ old_symbols = None /\ new_symbols = None
  /\ report = None /\ stdout = None /\ raised = None
  /\ lines = None /\ index = None /\ klass = None /\ symbols = None /\ classified = None
  /\ string = None /\ once = None /\ twice = None

ParseFullDefinition ==
  /\ pc = "classify"
  /\ parsed' = Classify(full_definition)
  /\ pc' = "classified"
  /\ UNCHANGED <<variant, old_path, new_path, old_symbols, new_symbols, report, stdout,
                 raised, lines, index, klass, symbols, classified, full_definition,
                 string, once, twice>>

NextClassify == ParseFullDefinition

SpecClassify == InitClassify /\ [][NextClassify]_vars

(***************************************************************************)
(* _simplify                                                               *)
(***************************************************************************)

\* boundaries = r'(\(|\)|\s|<|>|,|@)' in src/java, r'(\(|\)|\s|<|>|,)' in src/android
Boundaries ==
  {"(", ")", "<", ">", ","} \cup Whitespace \cup (IF variant = "java" THEN {"@"} ELSE {})

\* re.split(boundaries, s): the pieces between boundary characters and, the
\* group being a capturing one, the boundary characters themselves
RECURSIVE ReSplit(_, _)
ReSplit(s, token) ==
  IF s = <<>> THEN << token >>
  ELSE IF Head(s) \in Boundaries
       THEN << token, << Head(s) >> >> \o ReSplit(Tail(s), <<>>)
       ELSE ReSplit(Tail(s), Append(token, Head(s)))

\* token.find(delimiter): the 0-based offset of the first occurrence, -1 when none
Find(token, delimiter) ==
  IF \E i \in 1..Len(token) : token[i] = delimiter
  THEN Min({i \in 1..Len(token) : token[i] = delimiter}) - 1
  ELSE 0 - 1

\* the slice taken after the first occurrence instead of the last
AfterFirst(token, delimiter) == Slice(token, Find(token, delimiter) + 1, Len(token))

\* token.rfind(delimiter): the 0-based offset of the last occurrence, -1 when none
RFind(token, delimiter) ==
  IF \E i \in 1..Len(token) : token[i] = delimiter
  THEN Max({i \in 1..Len(token) : token[i] = delimiter}) - 1
  ELSE 0 - 1

\* token[token.rfind(delimiter)+1:]
AfterLast(token, delimiter) == Slice(token, RFind(token, delimiter) + 1, Len(token))

\* for delimiter in ('.', '$'): token = token[token.rfind(delimiter)+1:]
_simplify_token(token) == AfterLast(AfterLast(token, "."), "$")

_simplify(s) ==
  LET tokens == ReSplit(s, <<>>)
  IN Concat([i \in 1..Len(tokens) |-> _simplify_token(tokens[i])])

(***************************************************************************)
(* SpecSimplify: _simplify applied to a string, and to its own result      *)
(***************************************************************************)
MaxStringLen == 3

SimplifyAlphabet == {"a", "b", ".", "$", "(", ")", " ", "<", ",", "@"}

SimplifyInputs == UNION { [1..n -> SimplifyAlphabet] : n \in 0..MaxStringLen }

InitSimplify ==
  /\ variant \in Variants
  /\ pc = "simplify"
  /\ string \in SimplifyInputs
  /\ once = None /\ twice = None
  /\ old_path = None /\ new_path = None /\ old_symbols = None /\ new_symbols = None
  /\ report = None /\ stdout = None /\ raised = None
  /\ lines = None /\ index = None /\ klass = None /\ symbols = None /\ classified = None
  /\ full_definition = None /\ parsed = None

Simplify ==
  /\ pc = "simplify"
  /\ once' = _simplify(string)
  /\ pc' = "again"
  /\ UNCHANGED <<variant, old_path, new_path, old_symbols, new_symbols, report, stdout,
                 raised, lines, index, klass, symbols, classified, full_definition,
                 parsed, string, twice>>

SimplifyAgain ==
  /\ pc = "again"
  /\ twice' = _simplify(once)
  /\ pc' = "simplified"
  /\ UNCHANGED <<variant, old_path, new_path, old_symbols, new_symbols, report, stdout,
                 raised, lines, index, klass, symbols, classified, full_definition,
                 parsed, string, once>>

NextSimplify == Simplify \/ SimplifyAgain

SpecSimplify == InitSimplify /\ [][NextSimplify]_vars

(***************************************************************************)
(* SymbolId, Definition and the dictionaries                               *)
(***************************************************************************)

\* SymbolId = namedtuple('SymbolId', 'klass kind signature')
SymbolId(k, kind, signature) == [klass |-> k, kind |-> kind, signature |-> signature]

\* src/java: Definition = namedtuple('Definition', 'full short kind_description');
\* src/android: the definition is the stripped line itself
Definition(full, p) ==
  IF variant = "java"
  THEN [full |-> full, short |-> p.short_definition, kind_description |-> p.kind_description]
  ELSE full

\* the text _changes compares: definition.full in src/java, the definition in src/android
Full(definition) == IF variant = "java" THEN definition.full ELSE definition

\* {}
EmptyDict == <<>>

\* d[k] = v
Put(d, k, v) == [x \in DOMAIN d \cup {k} |-> IF x = k THEN v ELSE d[x]]

\* d = e in place of d.update(e)
Overwrite(d, e) == e

\* d.update(e)
Update(d, e) == [x \in DOMAIN d \cup DOMAIN e |-> IF x \in DOMAIN e THEN e[x] ELSE d[x]]

(***************************************************************************)
(* _symbols_for_klass                                                      *)
(***************************************************************************)

\* line.strip()[:-1].strip()
FullDefinition(line) == Strip(DropLast(Strip(line)))

\* the loop's state before its first iteration; classified records the indices
\* whose line the loop hands to the classifier
KlassLoopStart == [klass |-> None, symbols |-> EmptyDict, raised |-> NoException, classified |-> {}]

\* the body of the loop from the classifier's call on, for index i (0-based)
KlassLoopBody(file, i, st) ==
  LET Record(full, p) ==
        IF Raised(p)
        THEN [st EXCEPT !.raised = p.raised, !.classified = @ \cup {i}]
        ELSE LET k == IF i = 0 THEN p.signature ELSE st.klass
             IN [klass |-> k,
                 symbols |-> Put(st.symbols, SymbolId(k, p.kind, p.signature),
                                 Definition(full, p)),
                 raised |-> NoException,
                 classified |-> st.classified \cup {i}]
      Parse(full) == Record(full, Classify(full))
  IN Parse(FullDefinition(file[i + 1]))

\* the loop without its `if index == len(lines) - 1: continue`
KlassLoopStepAll(file, i, st) == KlassLoopBody(file, i, st)

\* one iteration of `for index, line in enumerate(lines)`
KlassLoopStep(file, i, st) ==
  IF i = Len(file) - 1 THEN st ELSE KlassLoopBody(file, i, st)

RECURSIVE KlassLoop(_, _, _)
KlassLoop(file, i, st) ==
  IF i = Len(file) \/ st.raised # NoException THEN st
  ELSE KlassLoop(file, i + 1, KlassLoopStep(file, i, st))

\* the dictionary returned, or the exception raised
_symbols_for_klass(file) == KlassLoop(file, 0, KlassLoopStart)

(***************************************************************************)
(* _symbols_for_library                                                    *)
(***************************************************************************)

\* the orders in which os.walk can yield the files of a directory tree
WalkOrders(files) ==
  {w \in [1..Cardinality(files) -> files] : \A i, j \in DOMAIN w : i # j => w[i] # w[j]}

\* the loop over the files in the order `walk`
RECURSIVE _symbols_for_library(_, _)
_symbols_for_library(walk, acc) ==
  IF walk = <<>> THEN [symbols |-> acc, raised |-> NoException]
  ELSE LET Merge(r) ==
             IF r.raised # NoException THEN [symbols |-> acc, raised |-> r.raised]
             ELSE _symbols_for_library(Tail(walk), Update(acc, r.symbols))
       IN Merge(_symbols_for_klass(Head(walk)))

(***************************************************************************)
(* sorted()                                                                *)
(***************************************************************************)

\* the printable ASCII characters in code order, from code 32; the quotation
\* mark (34) and the backslash (92) occur in no definition and are named here
Ascii ==
  <<" ", "!">> \o << "quotation mark" >>
    \o <<"#", "$", "%", "&", "'", "(", ")", "*", "+", ",", "-", ".", "/", "0", "1", "2", "3", "4", "5", "6", "7", "8", "9", ":", ";", "<", "=", ">", "?", "@", "A", "B", "C", "D", "E", "F", "G", "H", "I", "J", "K", "L", "M", "N", "O", "P", "Q", "R", "S", "T", "U", "V", "W", "X", "Y", "Z", "[">> \o << "backslash" >>
    \o <<"]", "^", "_", Backtick, "a", "b", "c", "d", "e", "f", "g", "h", "i", "j", "k", "l", "m", "n", "o", "p", "q", "r", "s", "t", "u", "v", "w", "x", "y", "z", "{", "|", "}", "~">>

\* ord(c)
Ord(c) == 31 + CHOOSE i \in 1..Len(Ascii) : Ascii[i] = c

\* a < b for two str
RECURSIVE StrLess(_, _)
StrLess(a, b) ==
  IF a = <<>> THEN b # <<>>
  ELSE IF b = <<>> THEN FALSE
  ELSE IF Head(a) = Head(b) THEN StrLess(Tail(a), Tail(b))
  ELSE Ord(Head(a)) < Ord(Head(b))

\* a < b for two SymbolId: tuples compare field by field
IdLess(a, b) ==
  IF a.klass # b.klass THEN StrLess(a.klass, b.klass)
  ELSE IF a.kind # b.kind THEN a.kind < b.kind
  ELSE StrLess(a.signature, b.signature)

\* the collection iterated without sorted(): here in descending order
RECURSIVE UnsortedIds(_)
UnsortedIds(ids) ==
  IF ids = {} THEN <<>>
  ELSE LET most == CHOOSE x \in ids : \A y \in ids \ {x} : IdLess(y, x)
       IN << most >> \o UnsortedIds(ids \ {most})

\* sorted(ids) for a collection of distinct SymbolId
RECURSIVE SortedIds(_)
SortedIds(ids) ==
  IF ids = {} THEN <<>>
  ELSE LET least == CHOOSE x \in ids : \A y \in ids \ {x} : IdLess(x, y)
       IN << least >> \o SortedIds(ids \ {least})

\* sorted(keys) for a collection of distinct str
RECURSIVE SortedStrs(_)
SortedStrs(keys) ==
  IF keys = {} THEN <<>>
  ELSE LET least == CHOOSE x \in keys : \A y \in keys \ {x} : StrLess(x, y)
       IN << least >> \o SortedStrs(keys \ {least})

(***************************************************************************)
(* _changes                                                                *)
(***************************************************************************)
Addition(symbol_id, definition) ==
  [type |-> "Addition", symbol_id |-> symbol_id, definition |-> definition]
Deletion(symbol_id, definition) ==
  [type |-> "Deletion", symbol_id |-> symbol_id, definition |-> definition]
Modification(symbol_id, old_definition, new_definition) ==
  [type |-> "Modification", symbol_id |-> symbol_id,
   old_definition |-> old_definition, new_definition |-> new_definition]

\* changes[symbol_id.klass].append(change), changes a defaultdict(list)
AppendChange(changes, change) ==
  LET k == change.symbol_id.klass
  IN Put(changes, k, IF k \in DOMAIN changes THEN Append(changes[k], change) ELSE << change >>)

\* the appends of one loop of _changes, in the loop's order
RECURSIVE AppendChanges(_, _)
AppendChanges(changes, seq) ==
  IF seq = <<>> THEN changes
  ELSE AppendChanges(AppendChange(changes, Head(seq)), Tail(seq))

\* the Modifications loop without its `if`
ChangesWithoutIf(old, new) ==
  LET added == {id \in DOMAIN new : id \notin DOMAIN old}
      deleted == {id \in DOMAIN old : id \notin DOMAIN new}
      persisted == {id \in DOMAIN old : id \in DOMAIN new}
      add == SortedIds(added)
      del == SortedIds(deleted)
      mod == SortedIds(persisted)
      a == AppendChanges(EmptyDict, [i \in 1..Len(add) |-> Addition(add[i], new[add[i]])])
      d == AppendChanges(a, [i \in 1..Len(del) |-> Deletion(del[i], old[del[i]])])
  IN AppendChanges(d, [i \in 1..Len(mod) |-> Modification(mod[i], old[mod[i]], new[mod[i]])])

_changes(old, new) ==
  LET added == {id \in DOMAIN new : id \notin DOMAIN old}
      deleted == {id \in DOMAIN old : id \notin DOMAIN new}
      persisted == {id \in DOMAIN old : id \in DOMAIN new}
      add == SortedIds(added)
      del == SortedIds(deleted)
      mod == SelectSeq(SortedIds(persisted), LAMBDA id : Full(old[id]) # Full(new[id]))
      \* Additions
      a == AppendChanges(EmptyDict, [i \in 1..Len(add) |-> Addition(add[i], new[add[i]])])
      \* Deletions
      d == AppendChanges(a, [i \in 1..Len(del) |-> Deletion(del[i], old[del[i]])])
      \* Modifications
  IN AppendChanges(d, [i \in 1..Len(mod) |-> Modification(mod[i], old[mod[i]], new[mod[i]])])

(***************************************************************************)
(* _markdown_for_change and what it calls.  Each returns [text |-> ...],   *)
(* or [raised |-> ...] when the call raises.                               *)
(***************************************************************************)

\* change.<attribute> for an attribute the namedtuple does not have
AttributeError(change, attribute) ==
  [raised |-> [exception |-> "AttributeError", object |-> change.type, attribute |-> attribute]]

\* src/java: change.definition.kind_description; src/android: by change.symbol_id.kind
_markdown_for_kind(change) ==
  IF variant = "java"
  THEN IF "definition" \in DOMAIN change
       THEN [text |-> change.definition.kind_description]
       ELSE AttributeError(change, "definition")
  ELSE LET kind == change.symbol_id.kind
       IN IF kind = KLASS THEN [text |-> <<"c", "l", "a", "s", "s">>]
          ELSE IF kind = CONSTRUCTOR THEN [text |-> <<"c", "o", "n", "s", "t", "r", "u", "c", "t", "o", "r">>]
          ELSE IF kind = FIELD THEN [text |-> <<"f", "i", "e", "l", "d">>]
          ELSE IF kind = METHOD THEN [text |-> <<"m", "e", "t", "h", "o", "d">>]
          ELSE [raised |-> [exception |-> "Exception",
                            message |-> <<"C", "o", "u", "l", "d", " ", "n", "o", "t", " ", "p", "r", "o", "d", "u", "c", "e", " ", "k", "i", "n", "d", " ", "m", "a", "r", "k", "d", "o", "w", "n">>]]

\* src/java: '`%s`' % _simplify(change.definition.short)
_markdown_for_short_definition(change) ==
  IF "definition" \in DOMAIN change
  THEN [text |-> <<Backtick>> \o _simplify(change.definition.short) \o <<Backtick>>]
  ELSE AttributeError(change, "definition")

\* src/android: '`%s`' % _simplify(change.symbol_id.signature)
_markdown_for_signature(change) ==
  [text |-> <<Backtick>> \o _simplify(change.symbol_id.signature) \o <<Backtick>>]

\* _simplify(change.old_definition.full), _simplify(change.old_definition) in src/android
_markdown_for_old_full_definition(change) == _simplify(Full(change.old_definition))

\* _simplify(change.new_definition.full), _simplify(change.new_definition) in src/android
_markdown_for_new_full_definition(change) == _simplify(Full(change.new_definition))

\* '<label> %s: %s' % (_markdown_for_kind(change), <short definition or signature>):
\* the arguments are evaluated left to right
MarkdownHeader(label, change) ==
  LET kind == _markdown_for_kind(change)
      short == IF variant = "java" THEN _markdown_for_short_definition(change)
               ELSE _markdown_for_signature(change)
  IN IF Raised(kind) THEN kind
     ELSE IF Raised(short) THEN short
     ELSE [text |-> label \o kind.text \o <<":", " ">> \o short.text]

_markdown_for_change(change) ==
  IF change.type = "Addition" THEN MarkdownHeader(<<"*", "n", "e", "w", "*", " ">>, change)
  ELSE IF change.type = "Deletion" THEN MarkdownHeader(<<"*", "r", "e", "m", "o", "v", "e", "d", "*", " ">>, change)
  ELSE IF change.type = "Modification"
  THEN LET header == MarkdownHeader(<<"*", "m", "o", "d", "i", "f", "i", "e", "d", "*", " ">>, change)
       IN IF Raised(header) THEN header
          ELSE [text |-> Join(<<"\n">>,
                  << header.text,
                     <<>>,
                     <<"|", " ", "F", "r", "o", "m", ":", " ", "|", " ">> \o _markdown_for_old_full_definition(change) \o <<" ", "|">>,
                     <<"|", " ", "T", "o", ":", " ", "|", " ">> \o _markdown_for_new_full_definition(change) \o <<" ", "|">> >>)]
  ELSE [raised |-> [exception |-> "Exception", message |-> <<"C", "o", "u", "l", "d", " ", "n", "o", "t", " ", "p", "r", "o", "d", "u", "c", "e", " ", "m", "a", "r", "k", "d", "o", "w", "n">>]]

(***************************************************************************)
(* _print_markdown                                                         *)
(***************************************************************************)

\* the keys put in the order of their simplified names
RECURSIVE SimplifiedOrderOf(_)
SimplifiedOrderOf(keys) ==
  IF keys = {} THEN <<>>
  ELSE LET least == CHOOSE x \in keys : \A y \in keys \ {x} :
                      \/ StrLess(_simplify(x), _simplify(y))
                      \/ _simplify(x) = _simplify(y) /\ StrLess(x, y)
       IN << least >> \o SimplifiedOrderOf(keys \ {least})
SimplifiedOrder(r) == SimplifiedOrderOf(DOMAIN r)

\* sorted(report.iteritems()): the items are (klass, changes) pairs with
\* distinct klass, so they come in the order of klass
ReportOrder(r) == SortedStrs(DOMAIN r)

\* the body of the loop for the keys left, out being what was printed before;
\* print(x) writes x and a newline
RECURSIVE PrintSections(_, _, _)
PrintSections(keys, r, out) ==
  IF keys = <<>> THEN [stdout |-> out, raised |-> NoException]
  ELSE LET changes == r[Head(keys)]
           heading == <<"#", "#", " ">> \o _simplify(Head(keys)) \o <<"\n">> \o <<"\n">>
           rendered == [i \in 1..Len(changes) |-> _markdown_for_change(changes[i])]
           failing == {i \in 1..Len(changes) : Raised(rendered[i])}
       IN IF failing # {}
          THEN [stdout |-> out \o heading, raised |-> rendered[Min(failing)].raised]
          ELSE PrintSections(Tail(keys), r,
                 out \o heading
                     \o Join(<<"\n", "\n">>, [i \in 1..Len(changes) |-> rendered[i].text]) \o <<"\n">>
                     \o <<"\n">> \o <<"\n">>)

_print_markdown(r) == PrintSections(ReportOrder(r), r, <<>>)

(***************************************************************************)
(* print_api_diff, for the orders in which os.walk yields the files of     *)
(* old_path and of new_path: what it prints and the exception it raises    *)
(***************************************************************************)
print_api_diff(walkOld, walkNew) ==
  LET Diff(old, new) ==
        IF old.raised # NoException THEN [stdout |-> <<>>, raised |-> old.raised]
        ELSE IF new.raised # NoException THEN [stdout |-> <<>>, raised |-> new.raised]
        ELSE _print_markdown(_changes(old.symbols, new.symbols))
  IN Diff(_symbols_for_library(walkOld, EmptyDict), _symbols_for_library(walkNew, EmptyDict))

(***************************************************************************)
(* Spec: print_api_diff on two snapshots                                   *)
(***************************************************************************)
WidgetOld ==
  << <<"p", "u", "b", "l", "i", "c", " ", "c", "l", "a", "s", "s", " ", "W", "i", "d", "g", "e", "t", " ", "{", "\n">>, <<" ", " ", "p", "u", "b", "l", "i", "c", " ", "W", "i", "d", "g", "e", "t", "(", ")", ";", "\n">>, <<" ", " ", "p", "u", "b", "l", "i", "c", " ", "v", "o", "i", "d", " ", "d", "r", "a", "w", "(", ")", ";", "\n">>, <<"}", "\n">> >>
WidgetNew ==
  << <<"p", "u", "b", "l", "i", "c", " ", "c", "l", "a", "s", "s", " ", "W", "i", "d", "g", "e", "t", " ", "{", "\n">>, <<" ", " ", "p", "u", "b", "l", "i", "c", " ", "W", "i", "d", "g", "e", "t", "(", ")", ";", "\n">>, <<" ", " ", "p", "u", "b", "l", "i", "c", " ", "v", "o", "i", "d", " ", "d", "r", "a", "w", "(", "i", "n", "t", " ", "x", ")", ";", "\n">>,
     <<" ", " ", "p", "u", "b", "l", "i", "c", " ", "i", "n", "t", " ", "c", "o", "l", "o", "r", ";", "\n">>, <<"}", "\n">> >>
WidgetFinal ==
  << <<"p", "u", "b", "l", "i", "c", " ", "f", "i", "n", "a", "l", " ", "c", "l", "a", "s", "s", " ", "W", "i", "d", "g", "e", "t", " ", "{", "\n">>, <<" ", " ", "p", "u", "b", "l", "i", "c", " ", "W", "i", "d", "g", "e", "t", "(", ")", ";", "\n">>, <<"}", "\n">> >>
Zed == << <<"p", "u", "b", "l", "i", "c", " ", "c", "l", "a", "s", "s", " ", "a", ".", "Z", "e", "d", " ", "{", "\n">>, <<" ", " ", "p", "u", "b", "l", "i", "c", " ", "a", ".", "Z", "e", "d", "(", "c", ".", "A", "r", "g", ")", ";", "\n">>, <<"}", "\n">> >>
Abe == << <<"p", "u", "b", "l", "i", "c", " ", "c", "l", "a", "s", "s", " ", "b", ".", "A", "b", "e", " ", "{", "\n">>, <<"}">> >>
Bad == << <<"p", "u", "b", "l", "i", "c", " ", "c", "l", "a", "s", "s", " ", "B", "a", "d", " ", "{", "\n">>, <<" ", " ", "v", "o", "i", "d", " ", "r", "u", "n", "(", ")", ";", "\n">>, <<"}", "\n">> >>

FileCorpus == {WidgetOld, WidgetNew, WidgetFinal, Zed, Abe, Bad}

MaxFiles == 2

Snapshots == {files \in SUBSET FileCorpus : Cardinality(files) <= MaxFiles}

Init ==
  /\ variant \in Variants
  /\ pc = "old"
  /\ old_path \in Snapshots
  /\ new_path \in Snapshots
  /\ old_symbols = None /\ new_symbols = None /\ report = None
  /\ stdout = <<>>
  /\ raised = NoException
  /\ lines = None /\ index = None /\ klass = None /\ symbols = None /\ classified = None
  /\ full_definition = None /\ parsed = None
  /\ string = None /\ once = None /\ twice = None

\* old_symbols = _symbols_for_library(old_path)
SymbolsForLibraryOld ==
  /\ pc = "old"
  /\ raised = NoException
  /\ \E walk \in WalkOrders(old_path) :
       \E r \in {_symbols_for_library(walk, EmptyDict)} :
         IF r.raised # NoException
         THEN /\ raised' = r.raised /\ UNCHANGED <<pc, old_symbols>>
         ELSE /\ pc' = "new" /\ old_symbols' = r.symbols /\ UNCHANGED raised
  /\ UNCHANGED <<variant, old_path, new_path, new_symbols, report, stdout, lines, index,
                 klass, symbols, classified, full_definition, parsed, string, once, twice>>

\* new_symbols = _symbols_for_library(new_path)
SymbolsForLibraryNew ==
  /\ pc = "new"
  /\ raised = NoException
  /\ \E walk \in WalkOrders(new_path) :
       \E r \in {_symbols_for_library(walk, EmptyDict)} :
         IF r.raised # NoException
         THEN /\ raised' = r.raised /\ UNCHANGED <<pc, new_symbols>>
         ELSE /\ pc' = "diff" /\ new_symbols' = r.symbols /\ UNCHANGED raised
  /\ UNCHANGED <<variant, old_path, new_path, old_symbols, report, stdout, lines, index,
                 klass, symbols, classified, full_definition, parsed, string, once, twice>>

\* report = _changes(old_symbols, new_symbols)
Changes ==
  /\ pc = "diff"
  /\ raised = NoException
  /\ report' = _changes(old_symbols, new_symbols)
  /\ pc' = "print"
  /\ UNCHANGED <<variant, old_path, new_path, old_symbols, new_symbols, stdout, raised,
                 lines, index, klass, symbols, classified, full_definition, parsed,
                 string, once, twice>>

\* _print_markdown(report)
PrintMarkdown ==
  /\ pc = "print"
  /\ raised = NoException
  /\ \E r \in {_print_markdown(report)} :
        /\ stdout' = stdout \o r.stdout
        /\ raised' = r.raised
        /\ pc' = IF r.raised # NoException THEN pc ELSE "done"
  /\ UNCHANGED <<variant, old_path, new_path, old_symbols, new_symbols, report, lines,
                 index, klass, symbols, classified, full_definition, parsed, string,
                 once, twice>>

Next == SymbolsForLibraryOld \/ SymbolsForLibraryNew \/ Changes \/ PrintMarkdown

Spec == Init /\ [][Next]_vars

(***************************************************************************)
(* SpecKlass: the loop of _symbols_for_klass over the lines of one file    *)
(***************************************************************************)
MaxLines == 3

KlassLines ==
  { <<"p", "u", "b", "l", "i", "c", " ", "c", "l", "a", "s", "s", " ", "W", "i", "d", "g", "e", "t", " ", "{", "\n">>, <<" ", " ", "p", "u", "b", "l", "i", "c", " ", "W", "i", "d", "g", "e", "t", "(", ")", ";", "\n">>, <<" ", " ", "p", "u", "b", "l", "i", "c", " ", "v", "o", "i", "d", " ", "d", "r", "a", "w", "(", ")", ";", "\n">>,
    <<" ", " ", "v", "o", "i", "d", " ", "d", "r", "a", "w", "(", ")", ";", "\n">>, <<"p", "u", "b", "l", "i", "c", " ", "i", "n", "t", " ", "c", "o", "l", "o", "r", ";">>, <<"}", "\n">> }

KlassFiles == UNION { [1..n -> KlassLines] : n \in 0..MaxLines }

InitKlass ==
  /\ variant \in Variants
  /\ pc = "loop"
  /\ lines \in KlassFiles
  /\ index = 0
  /\ klass = None
  /\ symbols = EmptyDict
  /\ classified = {}
  /\ raised = NoException
  /\ old_path = None /\ new_path = None /\ old_symbols = None /\ new_symbols = None
  /\ report = None /\ stdout = None
  /\ full_definition = None /\ parsed = None
  /\ string = None /\ once = None /\ twice = None

\* one iteration of the loop
SymbolsForKlassLine ==
  /\ pc = "loop"
  /\ index < Len(lines)
  /\ \E st \in {KlassLoopStep(lines, index,
                   [klass |-> klass, symbols |-> symbols, raised |-> raised,
                    classified |-> classified])} :
        /\ klass' = st.klass
        /\ symbols' = st.symbols
        /\ raised' = st.raised
        /\ classified' = st.classified
        /\ pc' = IF st.raised # NoException THEN "raised" ELSE "loop"
  /\ index' = index + 1
  /\ UNCHANGED <<variant, old_path, new_path, old_symbols, new_symbols, report, stdout,
                 lines, full_definition, parsed, string, once, twice>>

\* return symbols
SymbolsForKlassReturn ==
  /\ pc = "loop"
  /\ index = Len(lines)
  /\ pc' = "returned"
  /\ UNCHANGED <<variant, old_path, new_path, old_symbols, new_symbols, report, stdout,
                 raised, lines, index, klass, symbols, classified, full_definition,
                 parsed, string, once, twice>>

NextKlass == SymbolsForKlassLine \/ SymbolsForKlassReturn

SpecKlass == InitKlass /\ [][NextKlass]_vars

(***************************************************************************)
(* Properties                                                              *)
(***************************************************************************)

\* the report exists: _changes has returned
HasReport == pc \in {"print", "done"}

\* the run is over
Ended == pc = "done" \/ raised # NoException

\* the places <<klass, i>> of the report's changes
Entries == UNION { { <<k, i>> : i \in DOMAIN report[k] } : k \in DOMAIN report }
ChangeAt(p) == report[p[1]][p[2]]
EntriesOf(id) == {p \in Entries : ChangeAt(p).symbol_id = id}

\* a comes before b in the order of character codes
LexLess(a, b) ==
  \E n \in 0..Len(a) :
    /\ n <= Len(b)
    /\ \A i \in 1..n : a[i] = b[i]
    /\ \/ n = Len(a) /\ n < Len(b)
       \/ n < Len(a) /\ n < Len(b) /\ Ord(a[n + 1]) < Ord(b[n + 1])

\* C1: the report holds exactly one Addition (with the new definition) for each
\* identity only in new, one Deletion (with the old definition) for each
\* identity only in old, one Modification (with both definitions) for each
\* identity in both whose full texts differ, nothing for an identity in both
\* whose full texts are equal, and nothing else; each change is filed under its
\* identity's class; a table diffed against itself gives a report without entries
C1_ChangesExact ==
  HasReport =>
    /\ \A p \in Entries :
         /\ ChangeAt(p).symbol_id.klass = p[1]
         /\ ChangeAt(p).symbol_id \in DOMAIN old_symbols \cup DOMAIN new_symbols
    /\ \A k \in DOMAIN report : report[k] # <<>>
    /\ \A id \in DOMAIN new_symbols \ DOMAIN old_symbols :
         /\ Cardinality(EntriesOf(id)) = 1
         /\ \A p \in EntriesOf(id) : ChangeAt(p) = Addition(id, new_symbols[id])
    /\ \A id \in DOMAIN old_symbols \ DOMAIN new_symbols :
         /\ Cardinality(EntriesOf(id)) = 1
         /\ \A p \in EntriesOf(id) : ChangeAt(p) = Deletion(id, old_symbols[id])
    /\ \A id \in DOMAIN old_symbols \cap DOMAIN new_symbols :
         IF Full(old_symbols[id]) # Full(new_symbols[id])
         THEN /\ Cardinality(EntriesOf(id)) = 1
              /\ \A p \in EntriesOf(id) :
                   ChangeAt(p) = Modification(id, old_symbols[id], new_symbols[id])
         ELSE EntriesOf(id) = {}
    /\ old_symbols = new_symbols => report = EmptyDict

\* a report with an Addition, a Deletion, a Modification and an identity left out
\* because its text did not change
C1_Witness ==
  /\ HasReport
  /\ \E p \in Entries : ChangeAt(p).type = "Addition"
  /\ \E p \in Entries : ChangeAt(p).type = "Deletion"
  /\ \E p \in Entries : ChangeAt(p).type = "Modification"
  /\ \E id \in DOMAIN old_symbols \cap DOMAIN new_symbols : EntriesOf(id) = {}

\* the Widget scenario of the specification
WidgetScenario == old_path = {WidgetOld} /\ new_path = {WidgetNew} /\ HasReport

\* the changes of one type filed under class k
OfType(k, type) ==
  IF k \in DOMAIN report THEN SelectSeq(report[k], LAMBDA c : c.type = type) ELSE <<>>

\* C2 as claimed: in the Widget scenario the report holds, under Widget, one
\* Addition (the field color), one Modification (the method draw) and no Deletion
C2_WidgetAsClaimed ==
  WidgetScenario =>
    /\ DOMAIN report = { <<"W", "i", "d", "g", "e", "t">> }
    /\ Len(OfType(<<"W", "i", "d", "g", "e", "t">>, "Addition")) = 1
    /\ OfType(<<"W", "i", "d", "g", "e", "t">>, "Addition")[1].symbol_id = SymbolId(<<"W", "i", "d", "g", "e", "t">>, FIELD, <<"c", "o", "l", "o", "r">>)
    /\ Len(OfType(<<"W", "i", "d", "g", "e", "t">>, "Modification")) = 1
    /\ OfType(<<"W", "i", "d", "g", "e", "t">>, "Modification")[1].symbol_id.kind = METHOD
    /\ Len(OfType(<<"W", "i", "d", "g", "e", "t">>, "Deletion")) = 0

\* C2 amended: in the Widget scenario the report holds, under Widget, two
\* Additions (the field color, the method draw(int x)), one Deletion (the
\* method draw()) and no Modification: the parameter list is part of the identity
C2_Widget ==
  WidgetScenario =>
    /\ DOMAIN report = { <<"W", "i", "d", "g", "e", "t">> }
    /\ [i \in 1..Len(report[<<"W", "i", "d", "g", "e", "t">>]) |->
          << report[<<"W", "i", "d", "g", "e", "t">>][i].type, report[<<"W", "i", "d", "g", "e", "t">>][i].symbol_id >>]
       = << << "Addition", SymbolId(<<"W", "i", "d", "g", "e", "t">>, FIELD, <<"c", "o", "l", "o", "r">>) >>,
            << "Addition", SymbolId(<<"W", "i", "d", "g", "e", "t">>, METHOD, <<"d", "r", "a", "w", "(", "i", "n", "t", " ", "x", ")">>) >>,
            << "Deletion", SymbolId(<<"W", "i", "d", "g", "e", "t">>, METHOD, <<"d", "r", "a", "w", "(", ")">>) >> >>

C2_Witness == WidgetScenario /\ pc = "done"

\* the walk a comparison run takes
CanonicalWalk(files) == CHOOSE w \in WalkOrders(files) : TRUE

\* no two files of the snapshot give one identity two different texts
NoConflict(files) ==
  \A f, g \in files :
    LET a == _symbols_for_klass(f)
        b == _symbols_for_klass(g)
    IN (a.raised = NoException /\ b.raised = NoException) =>
         \A id \in DOMAIN a.symbols \cap DOMAIN b.symbols :
           Full(a.symbols[id]) = Full(b.symbols[id])

\* this run printed what the run with the comparison walks prints, and ended the same way
SameAsCanonical ==
  LET c == print_api_diff(CanonicalWalk(old_path), CanonicalWalk(new_path))
  IN /\ stdout = c.stdout
     /\ (raised = NoException) <=> (c.raised = NoException)

\* C3 as claimed: whatever the order in which the files of the two snapshots
\* are walked, the run prints the same bytes, also when two files of a snapshot
\* give one identity two different texts
C3_AnyWalkAsClaimed == Ended => SameAsCanonical

\* C3 amended: whatever the order in which the files of the two snapshots are
\* walked, the run prints the same bytes, provided no two files of one
\* snapshot give one identity two different texts
C3_AnyWalk ==
  (Ended /\ NoConflict(old_path) /\ NoConflict(new_path)) => SameAsCanonical

\* a finished run over a snapshot of two files that share an identity (with the
\* same text) and that printed a report
C3_Witness ==
  /\ pc = "done"
  /\ stdout # <<>>
  /\ NoConflict(old_path) /\ NoConflict(new_path)
  /\ \E f, g \in new_path :
       /\ f # g
       /\ DOMAIN _symbols_for_klass(f).symbols \cap DOMAIN _symbols_for_klass(g).symbols # {}

\* TYPE < CONSTRUCTOR < FIELD < METHOD
KindOrder == << KLASS, CONSTRUCTOR, FIELD, METHOD >>
KindRank(kind) == CHOOSE i \in DOMAIN KindOrder : KindOrder[i] = kind

\* Additions, then Deletions, then Modifications
TypeOrder == << "Addition", "Deletion", "Modification" >>
TypeRank(type) == CHOOSE i \in DOMAIN TypeOrder : TypeOrder[i] = type

\* identity a comes before identity b: by class, then kind, then signature
IdBefore(a, b) ==
  \/ LexLess(a.klass, b.klass)
  \/ a.klass = b.klass /\ KindRank(a.kind) < KindRank(b.kind)
  \/ a.klass = b.klass /\ a.kind = b.kind /\ LexLess(a.signature, b.signature)

\* C4: in each class's list the Additions come first, then the Deletions, then
\* the Modifications, and within each group the identities ascend strictly
C4_Order ==
  HasReport =>
    \A k \in DOMAIN report : \A i, j \in DOMAIN report[k] :
      i < j =>
        /\ TypeRank(report[k][i].type) <= TypeRank(report[k][j].type)
        /\ report[k][i].type = report[k][j].type =>
             IdBefore(report[k][i].symbol_id, report[k][j].symbol_id)

\* a list with two Additions of one kind, an Addition of another kind before
\* them, and a change of another type after them
C4_Witness ==
  /\ HasReport
  /\ \E k \in DOMAIN report : \E h, i, j, l \in DOMAIN report[k] :
       /\ h < i /\ i < j /\ j < l
       /\ report[k][h].type = "Addition" /\ report[k][i].type = "Addition"
       /\ report[k][j].type = "Addition" /\ report[k][l].type # "Addition"
       /\ report[k][h].symbol_id.kind # report[k][i].symbol_id.kind
       /\ report[k][i].symbol_id.kind = report[k][j].symbol_id.kind

\* the lines of a text: what stands between its newlines
SplitLines(text) ==
  LET ends == {i \in 1..Len(text) : text[i] = "\n"} \cup {Len(text) + 1}
      starts == {1} \cup {i + 1 : i \in ends \ {Len(text) + 1}}
      first == {b \in starts : b <= Len(text)}
  IN [n \in 1..Cardinality(first) |->
        LET b == CHOOSE x \in first : Cardinality({y \in first : y < x}) = n - 1
            e == Min({x \in ends : x >= b})
        IN SubSeq(text, b, e - 1)]

\* the names in the level-2 headings of a text, in the text's order
Headings(text) ==
  LET heads == SelectSeq(SplitLines(text), LAMBDA l : StartsWithAt(l, 0, <<"#", "#", " ">>))
  IN [i \in 1..Len(heads) |-> Slice(heads[i], 3, Len(heads[i]))]

\* C5 as claimed: the headings printed ascend in the simplified class name
C5_SimplifiedOrderAsClaimed ==
  (HasReport /\ Ended) =>
    \A i, j \in DOMAIN Headings(stdout) :
      i < j => ~ LexLess(Headings(stdout)[j], Headings(stdout)[i])

\* C5 amended: the sections are printed in ascending order of the class name as
\* the report holds it (fully qualified); each heading shows that name simplified
C5_QualifiedOrder ==
  (HasReport /\ Ended) =>
    /\ Len(Headings(stdout)) <= Cardinality(DOMAIN report)
    /\ pc = "done" => Len(Headings(stdout)) = Cardinality(DOMAIN report)
    /\ \A i \in DOMAIN Headings(stdout) :
         \E k \in DOMAIN report :
           /\ Headings(stdout)[i] = _simplify(k)
           /\ Cardinality({x \in DOMAIN report : LexLess(x, k)}) = i - 1

\* a report of two classes whose qualified names and simplified names sort differently
C5_Witness ==
  /\ pc = "done"
  /\ Len(Headings(stdout)) = 2
  /\ LexLess(Headings(stdout)[2], Headings(stdout)[1])

\* C6 as claimed: in src/java, _markdown_for_change renders every Modification
\* of the report as the header line, an empty line, the From row and the To row
C6_ModificationRenders ==
  (HasReport /\ variant = "java") =>
    \A p \in Entries :
      ChangeAt(p).type = "Modification" =>
        /\ ~ Raised(_markdown_for_change(ChangeAt(p)))
        /\ SplitLines(_markdown_for_change(ChangeAt(p)).text)
           = << <<"*", "m", "o", "d", "i", "f", "i", "e", "d", "*", " ">> \o ChangeAt(p).new_definition.kind_description \o <<":", " ", Backtick>>
                  \o _simplify(ChangeAt(p).new_definition.short) \o <<Backtick>>,
                <<>>,
                <<"|", " ", "F", "r", "o", "m", ":", " ", "|", " ">> \o _simplify(ChangeAt(p).old_definition.full) \o <<" ", "|">>,
                <<"|", " ", "T", "o", ":", " ", "|", " ">> \o _simplify(ChangeAt(p).new_definition.full) \o <<" ", "|">> >>

\* C7 as claimed: a run that fails has written nothing
C7_NoPartialOutput == raised # NoException => stdout = <<>>

\* the last index of the token that holds index i of s
TokenEnd(s, i) == Max({e \in i..Len(s) : \A j \in i..e : s[j] \notin Boundaries})

\* the characters _simplify is to keep: the boundary characters, and of a token
\* the characters behind its last '.' and its last '$'
Kept(s) ==
  {i \in 1..Len(s) :
     \/ s[i] \in Boundaries
     \/ \A j \in i..TokenEnd(s, i) : s[j] \notin {".", "$"}}

\* the characters of s at the indices of a set, in order
Pick(s, indices) ==
  [n \in 1..Cardinality(indices) |->
     s[CHOOSE i \in indices : Cardinality({j \in indices : j < i}) = n - 1]]

\* C8: _simplify keeps every boundary character in place and replaces each token
\* between them by what follows its last '.' and then its last '$'; applied to
\* its own result it changes nothing
C8_Simplify ==
  /\ pc \in {"again", "simplified"} =>
       /\ once = Pick(string, Kept(string))
       /\ SelectSeq(once, LAMBDA c : c \in Boundaries)
          = SelectSeq(string, LAMBDA c : c \in Boundaries)
  /\ pc = "simplified" => twice = once

\* a string with a boundary character, a '.' and a '$' that _simplify shortened
C8_Witness ==
  /\ pc = "simplified"
  /\ once # string
  /\ \E i \in DOMAIN string : string[i] \in Boundaries
  /\ \E i \in DOMAIN string : string[i] = "."
  /\ \E i \in DOMAIN string : string[i] = "$"

\* full_definition is body behind a run of modifiers of the lengths given
IsRunThen(body, lengths) ==
  \E run \in ModifierRuns : Len(run) \in lengths /\ full_definition = Concat(run) \o body

\* the classifier's result is kind and signature
ClassifiedAs(kind, signature) ==
  /\ ~ Raised(parsed)
  /\ parsed.kind = kind
  /\ parsed.signature = signature

LineParsed(n) == Classify(FullDefinition(lines[n]))

\* C10: every identity of the table has as class the signature of the first
\* line; the last line is never classified; the first line and every line
\* between it and the last have their entry; fewer than two lines give an
\* empty table
C10_KlassTable ==
  /\ pc \in {"loop", "raised", "returned"} => (Len(lines) - 1) \notin classified
  /\ pc = "returned" =>
       /\ classified = 0..(Len(lines) - 2)
       /\ Len(lines) < 2 => symbols = EmptyDict
       /\ Len(lines) >= 2 =>
            DOMAIN symbols
              = { SymbolId(LineParsed(1).signature, LineParsed(n).kind, LineParsed(n).signature) :
                    n \in 1..(Len(lines) - 1) }

\* a file of three lines returned with two entries, its last line one the
\* classifier would refuse
C10_Witness ==
  /\ pc = "returned"
  /\ Len(lines) = 3
  /\ Cardinality(DOMAIN symbols) = 2
  /\ Raised(LineParsed(3))

====
